---- MODULE Spec2Model ----
(***************************************************************************)
(* Model of the controls package: Controller (state machine, join counter, *)
(* control loop, watchers) and Services (the registry).                    *)
(*                                                                         *)
(* Threads: the caller ("main": Register*, Start, Wait), the dispatch loop *)
(* (processControlMessages), the signal watcher, the error/context watcher,*)
(* one start task per launched service, and one external collaborator     *)
(* ("client") that calls Stop(), sends on the control and errors channels  *)
(* and registers late services.  A step is one lock-protected section or   *)
(* one channel rendezvous.                                                 *)
(***************************************************************************)
EXTENDS Integers, Sequences, FiniteSets, TLC

\* ---- bounds -------------------------------------------------------------
MaxServices == 2
MaxOps == 2

\* ---- program constants (controls.go) -------------------------------------
Unknown == "unknown"
Running == "running"
Stopping == "stopping"
Stopped == "stopped"
MsgStop == "stop"
MsgStatus == "status"

SvcIds == 1..MaxServices
NoOne == "none"

VARIABLES
    state,        \* Controller.state
    services,     \* Services.services: sequence of service ids, registration order
    mu,           \* Services.mu: the thread holding it, or NoOne
    wg,           \* Controller.wg counter
    panicked,     \* the process died of "sync: negative WaitGroup counter"
    ctxDone,      \* the ambient context is cancelled
    sigEnabled,   \* Controller.signals # nil
    sigBuf,       \* signals buffered in the signal channel (capacity 1)
    pcMain,       \* position of the caller
    idxMain,      \* range index of Services.start
    pcDisp,       \* position of the dispatch loop
    idxDisp,      \* range index of Services.stop / Services.status
    stopping,     \* handleStopMessage's local: 0 - c.services.stop()
    pcSig,        \* position of the signal watcher
    pcWatch,      \* position of the error/context watcher
    ctxCancelled, \* the watcher's local flag
    taskPc,       \* position of each service's start task
    pcClient,     \* position of the external collaborator
    clientMsg,    \* the message the collaborator is sending
    opsLeft,      \* operations the collaborator may still begin
    clientLate,   \* the collaborator's Stop() call began after Start had returned
    \* ---- observation (history) variables ----
    startCount,   \* invocations of each start operation
    stopCount,    \* invocations of each stop operation
    statusCount,  \* invocations of each status operation
    stopPasses,   \* invocations of Services.stop
    passLog,      \* services stopped by the current/last Services.stop, in order
    statusRecv,   \* Status messages received by the dispatch loop
    regAtStart,   \* number of services registered when Start was called
    cancelRunning,\* the context was cancelled while Running, after Start returned
    stoppedAfter, \* SetState(Stopped) has run since that cancellation
    curDirect,    \* the Stop message being handled was sent directly on the channel
    sawRunning,   \* IsRunning() was true in the current handleStopMessage
    recvState     \* the state when the Stop message being handled was received

vars == << state, services, mu, wg, panicked, ctxDone, sigEnabled, sigBuf,
           pcMain, idxMain, pcDisp, idxDisp, pcSig, pcWatch, ctxCancelled, taskPc,
           stopping, pcClient, clientMsg, opsLeft, clientLate,
           startCount, stopCount, statusCount, stopPasses, passLog, statusRecv,
           regAtStart, cancelRunning, stoppedAfter, curDirect, sawRunning, recvState >>

regV == << services, mu >>
wgV == << wg, panicked >>
env == << ctxDone, sigEnabled, sigBuf >>
mainV == << pcMain, idxMain >>
dispV == << pcDisp, idxDisp, stopping >>
watchV == << pcWatch, ctxCancelled >>
clientV == << pcClient, clientMsg, opsLeft, clientLate >>
cntV == << startCount, stopCount, statusCount >>
passV == << stopPasses, passLog >>
msgH == << curDirect, sawRunning, recvState >>
obsV == << regAtStart, cancelRunning, stoppedAfter >>

\* ---- NewController --------------------------------------------------------
Init ==
    /\ state = Unknown
    /\ services = << >>
    /\ mu = NoOne
    /\ wg = 0
    /\ panicked = FALSE
    /\ ctxDone = FALSE
    /\ sigEnabled \in BOOLEAN
    /\ sigBuf = 0
    /\ pcMain = "init"
    /\ idxMain = 0
    /\ pcDisp = "off"
    /\ idxDisp = 0
    /\ stopping = 0
    /\ pcSig = "off"
    /\ pcWatch = "off"
    /\ ctxCancelled = FALSE
    /\ taskPc = [s \in SvcIds |-> "none"]
    /\ pcClient = "idle"
    /\ clientMsg = MsgStop
    /\ opsLeft = MaxOps
    /\ clientLate = FALSE
    /\ startCount = [s \in SvcIds |-> 0]
    /\ stopCount = [s \in SvcIds |-> 0]
    /\ statusCount = [s \in SvcIds |-> 0]
    /\ stopPasses = 0
    /\ passLog = << >>
    /\ statusRecv = 0
    /\ regAtStart = 0
    /\ cancelRunning = FALSE
    /\ stoppedAfter = FALSE
    /\ curDirect = FALSE
    /\ sawRunning = FALSE
    /\ recvState = NoOne

\* the process is alive (no panic has killed it)
Alive == ~panicked

\* ---- state machine ----------------------------------------------------------
\* Controller.SetState
SetState(s) == state' = s

IsRunning == state = Running
IsStopping == state = Stopping
IsStopped == state = Stopped

\* sync.WaitGroup.Add: a negative counter panics
WgAdd(delta) ==
    /\ wg' = wg + delta
    /\ panicked' = (wg + delta < 0)

\* Start has been invoked (the collaborator acts only on a started controller)
Started == pcMain # "init"

\* Start has returned to the caller
StartReturned == pcMain \in {"returned", "waitReturned"}

\* ---- Services (the registry) -------------------------------------------------
\* Services.add, inside its critical section: q.services = append(q.services, s)
add ==
    /\ Len(services) < MaxServices
    /\ services' = Append(services, Len(services) + 1)

\* Controller.Register called by the caller before Start: no other thread
\* exists yet, so lock, append and unlock are one step
Register ==
    /\ Alive
    /\ pcMain = "init"
    /\ mu = NoOne
    /\ add
    /\ mu' = mu
    /\ UNCHANGED << state, wgV, env, mainV, dispV, pcSig, watchV, taskPc, clientV,
                    cntV, passV, statusRecv, obsV, msgH >>

\* ---- Controller.Start ---------------------------------------------------------
\* go c.controls(): the signal watcher (if a channel is configured), the
\* error/context watcher and the dispatch loop become runnable
StartSpawn ==
    /\ Alive
    /\ pcMain = "init"
    /\ pcMain' = "S_add"
    /\ pcDisp' = "recv"
    /\ pcSig' = IF sigEnabled THEN "recv" ELSE "off"
    /\ pcWatch' = "select"
    /\ regAtStart' = Len(services)
    /\ UNCHANGED << state, regV, wgV, env, idxMain, idxDisp, stopping, ctxCancelled,
                    taskPc, clientV, cntV, passV, statusRecv, cancelRunning,
                    stoppedAfter, msgH >>

\* adding := len(c.services.services); c.wg.Add(adding)
StartWgAdd ==
    /\ Alive
    /\ pcMain = "S_add"
    /\ WgAdd(Len(services))
    /\ pcMain' = "S_lock"
    /\ UNCHANGED << state, regV, env, idxMain, dispV, pcSig, watchV, taskPc, clientV,
                    cntV, passV, statusRecv, obsV, msgH >>

\* Services.start: q.mu.Lock()
ServicesStartLock ==
    /\ Alive
    /\ pcMain = "S_lock"
    /\ mu = NoOne
    /\ mu' = "main"
    /\ idxMain' = 1
    /\ pcMain' = "S_launch"
    /\ UNCHANGED << state, services, wgV, env, dispV, pcSig, watchV, taskPc, clientV,
                    cntV, passV, statusRecv, obsV, msgH >>

\* Services.start: one iteration of the range loop launches one start task
ServicesStartLaunch ==
    /\ Alive
    /\ pcMain = "S_launch"
    /\ idxMain <= Len(services)
    /\ taskPc' = [taskPc EXCEPT ![services[idxMain]] = "run"]
    /\ idxMain' = idxMain + 1
    /\ UNCHANGED << state, regV, wgV, env, pcMain, dispV, pcSig, watchV, clientV,
                    cntV, passV, statusRecv, obsV, msgH >>

\* Services.start: q.mu.Unlock() after the loop
ServicesStartUnlock ==
    /\ Alive
    /\ pcMain = "S_launch"
    /\ idxMain > Len(services)
    /\ mu' = NoOne
    /\ pcMain' = "S_wait"
    /\ idxMain' = 0
    /\ UNCHANGED << state, services, wgV, env, dispV, pcSig, watchV, taskPc,
                    clientV, cntV, passV, statusRecv, obsV, msgH >>

\* faulty variant of ServicesStartWait: Services.start returns without wg.Wait()
ServicesStartNoWait ==
    /\ Alive
    /\ pcMain = "S_wait"
    /\ pcMain' = "S_setRunning"
    /\ UNCHANGED << state, regV, wgV, env, idxMain, dispV, pcSig, watchV, taskPc,
                    clientV, cntV, passV, statusRecv, obsV, msgH >>

\* Services.start: wg.Wait() returns when every launched task is done
ServicesStartWait ==
    /\ Alive
    /\ pcMain = "S_wait"
    /\ \A s \in SvcIds : taskPc[s] \in {"none", "done"}
    /\ pcMain' = "S_setRunning"
    /\ UNCHANGED << state, regV, wgV, env, idxMain, dispV, pcSig, watchV, taskPc,
                    clientV, cntV, passV, statusRecv, obsV, msgH >>

\* c.SetState(Running); Start returns
StartSetRunning ==
    /\ Alive
    /\ pcMain = "S_setRunning"
    /\ SetState(Running)
    /\ pcMain' = "returned"
    /\ UNCHANGED << regV, wgV, env, idxMain, dispV, pcSig, watchV, taskPc, clientV,
                    cntV, passV, statusRecv, obsV, msgH >>

\* the start task of service s: err := fn(ctx), which returns an error or nil
TaskRun(s) ==
    /\ Alive
    /\ taskPc[s] = "run"
    /\ startCount' = [startCount EXCEPT ![s] = @ + 1]
    /\ \E next \in {"sendErr", "done"} : taskPc' = [taskPc EXCEPT ![s] = next]
    /\ UNCHANGED << state, regV, wgV, env, mainV, dispV, pcSig, watchV, clientV,
                    stopCount, statusCount, passV, statusRecv, obsV, msgH >>

\* ---- Controller.Wait ------------------------------------------------------------
\* c.wg.Wait(), called by the caller after Start returned
Wait ==
    /\ Alive
    /\ pcMain = "returned"
    /\ wg = 0
    /\ pcMain' = "waitReturned"
    /\ UNCHANGED << state, regV, wgV, env, idxMain, dispV, pcSig, watchV, taskPc,
                    clientV, cntV, passV, statusRecv, obsV, msgH >>

\* ---- Controller.Stop ------------------------------------------------------------
\* Stop, first statement: c.SetState(Stopping).  The second statement, the
\* send c.messages <- Stop, is the rendezvous RecvStop below.
StopSetState == SetState(Stopping)

\* capacity of the signal channel: make(chan os.Signal, 1)
SigCap == 1

\* ---- startSignalHandler -----------------------------------------------------------
\* the OS delivers SIGINT/SIGTERM: signal.Notify sends without blocking and
\* drops the signal when the buffer (capacity 1) is full
OsSignal ==
    /\ Alive
    /\ sigEnabled
    /\ sigBuf' = IF sigBuf < SigCap THEN sigBuf + 1 ELSE sigBuf
    /\ UNCHANGED << state, regV, wgV, ctxDone, sigEnabled, mainV, dispV, pcSig, watchV,
                    taskPc, clientV, cntV, passV, statusRecv, obsV, msgH >>

\* sig := <-c.Signals(); log; call c.Stop()
SigRecv ==
    /\ Alive
    /\ pcSig = "recv"
    /\ sigBuf > 0
    /\ sigBuf' = sigBuf - 1
    /\ pcSig' = "stop_set"
    /\ UNCHANGED << state, regV, wgV, ctxDone, sigEnabled, mainV, dispV,
                    watchV, taskPc, clientV, cntV, passV, statusRecv, obsV,
                    msgH >>

\* the signal watcher inside Stop: SetState(Stopping)
SigStopSet ==
    /\ Alive
    /\ pcSig = "stop_set"
    /\ StopSetState
    /\ pcSig' = "stop_send"
    /\ UNCHANGED << regV, wgV, env, mainV, dispV, watchV, taskPc, clientV, cntV,
                    passV, statusRecv, obsV, msgH >>

\* ---- startErrorAndContextHandler ----------------------------------------------------
\* the ambient context is cancelled (by its owner, at any time)
CtxCancel ==
    /\ Alive
    /\ ~ctxDone
    /\ ctxDone' = TRUE
    /\ cancelRunning' = (state = Running /\ StartReturned)
    /\ UNCHANGED << state, regV, wgV, sigEnabled, sigBuf, mainV, dispV, pcSig,
                    watchV, taskPc, clientV, cntV, passV, statusRecv, regAtStart, stoppedAfter, msgH >>

\* faulty variant of WatchLogErr: after logging the error the watcher calls c.Stop()
WatchLogErrThenStop ==
    /\ Alive
    /\ pcWatch = "log_err"
    /\ pcWatch' = "stop_set"
    /\ UNCHANGED << state, regV, wgV, env, mainV, dispV, pcSig, ctxCancelled, taskPc,
                    clientV, cntV, passV, statusRecv, obsV, msgH >>

\* c.logger.Error(err.Error()); back to the select
WatchLogErr ==
    /\ Alive
    /\ pcWatch = "log_err"
    /\ pcWatch' = "select"
    /\ UNCHANGED << state, regV, wgV, env, mainV, dispV, pcSig, ctxCancelled, taskPc,
                    clientV, cntV, passV, statusRecv, obsV, msgH >>

\* faulty variant of FirstCancel: the Done case has no guard
FirstCancelUnguarded == TRUE

\* the watcher's guard on the Done case: if !ctxCancelled
FirstCancel == ~ctxCancelled

\* case err := <-c.Errors(): the sender is the start task of service s;
\* the watcher logs the error and loops
WatchRecvErrTask(s) ==
    /\ Alive
    /\ pcWatch = "select"
    /\ taskPc[s] = "sendErr"
    /\ taskPc' = [taskPc EXCEPT ![s] = "done"]
    /\ pcWatch' = "log_err"
    /\ UNCHANGED << state, regV, wgV, env, mainV, dispV, pcSig, ctxCancelled, clientV, cntV,
                    passV, statusRecv, obsV, msgH >>

\* case err := <-c.Errors(): the sender is the external collaborator
WatchRecvErrClient ==
    /\ Alive
    /\ pcWatch = "select"
    /\ pcClient = "err_send"
    /\ pcClient' = "idle"
    /\ pcWatch' = "log_err"
    /\ UNCHANGED << state, regV, wgV, env, mainV, dispV, pcSig, ctxCancelled, taskPc,
                    clientMsg, opsLeft, clientLate, cntV, passV, statusRecv, obsV, msgH >>

\* case <-c.GetContext().Done(): first observation sets the flag and calls
\* c.Stop(); later observations fall through the if and loop (no effect)
WatchCtxDone ==
    /\ Alive
    /\ pcWatch = "select"
    /\ ctxDone
    /\ FirstCancel
    /\ ctxCancelled' = TRUE
    /\ pcWatch' = "stop_set"
    /\ UNCHANGED << state, regV, wgV, env, mainV, dispV, pcSig, taskPc, clientV, cntV,
                    passV, statusRecv, obsV, msgH >>

\* the watcher inside Stop: SetState(Stopping)
WatchStopSet ==
    /\ Alive
    /\ pcWatch = "stop_set"
    /\ StopSetState
    /\ pcWatch' = "stop_send"
    /\ UNCHANGED << regV, wgV, env, mainV, dispV, pcSig, ctxCancelled, taskPc,
                    clientV, cntV, passV, statusRecv, obsV, msgH >>

\* ---- processControlMessages ------------------------------------------------------
\* msg := <-c.Messages() with msg = Stop: the loop enters handleStopMessage
RecvStop(direct) ==
    /\ Alive
    /\ pcDisp = "recv"
    /\ pcDisp' = "h_isRunning"
    /\ curDirect' = direct
    /\ sawRunning' = FALSE
    /\ recvState' = state
    /\ UNCHANGED << state, regV, wgV, env, mainV, idxDisp, stopping, ctxCancelled,
                    taskPc, opsLeft, clientLate, cntV, passV, statusRecv, obsV >>

\* faulty variant of RecvStopSig: the signal watcher loops back to its receive
RecvStopSigLoop ==
    /\ pcSig = "stop_send"
    /\ pcSig' = "recv"
    /\ RecvStop(FALSE)
    /\ UNCHANGED << clientMsg, pcWatch, pcClient >>

\* the signal watcher's Stop() completes its send and the watcher terminates
RecvStopSig ==
    /\ pcSig = "stop_send"
    /\ pcSig' = "done"
    /\ RecvStop(FALSE)
    /\ UNCHANGED << clientMsg, pcWatch, pcClient >>

\* the error/context watcher's Stop() completes its send; the watcher loops
RecvStopWatch ==
    /\ pcWatch = "stop_send"
    /\ pcWatch' = "select"
    /\ RecvStop(FALSE)
    /\ UNCHANGED << clientMsg, pcSig, pcClient >>

\* the collaborator's Stop() completes its send and returns
RecvStopClient ==
    /\ pcClient = "stop_send"
    /\ pcClient' = "stop_ret"
    /\ RecvStop(FALSE)
    /\ UNCHANGED << clientMsg, pcSig, pcWatch >>

\* a Stop message sent directly on c.Messages() is received
RecvStopDirect ==
    /\ pcClient = "msg_send"
    /\ clientMsg = MsgStop
    /\ pcClient' = "idle"
    /\ clientMsg' = MsgStop
    /\ RecvStop(TRUE)
    /\ UNCHANGED << pcSig, pcWatch >>

\* faulty variant of RecvStatus: a Status message is accepted while the
\* previous message is still being handled
RecvStatusAnytime ==
    /\ Alive
    /\ pcDisp # "off"
    /\ pcClient = "msg_send"
    /\ clientMsg = MsgStatus
    /\ pcClient' = "idle"
    /\ clientMsg' = MsgStop
    /\ pcDisp' = "status_lock"
    /\ statusRecv' = statusRecv + 1
    /\ UNCHANGED << state, regV, wgV, env, mainV, idxDisp, stopping, pcSig, watchV,
                    taskPc, opsLeft, clientLate, cntV, passV, obsV, msgH >>

\* msg := <-c.Messages() with msg = Status: the loop enters Services.status
RecvStatus ==
    /\ Alive
    /\ pcDisp = "recv"
    /\ pcClient = "msg_send"
    /\ clientMsg = MsgStatus
    /\ pcClient' = "idle"
    /\ clientMsg' = MsgStop
    /\ pcDisp' = "status_lock"
    /\ statusRecv' = statusRecv + 1
    /\ UNCHANGED << state, regV, wgV, env, mainV, idxDisp, stopping, pcSig, watchV,
                    taskPc, opsLeft, clientLate, cntV, passV, obsV, msgH >>

\* ---- handleStopMessage -------------------------------------------------------------
\* if c.IsRunning() { ... }
HandleIsRunning ==
    /\ Alive
    /\ pcDisp = "h_isRunning"
    /\ pcDisp' = IF IsRunning THEN "h_setStopping" ELSE "h_isStopping"
    /\ sawRunning' = IsRunning
    /\ UNCHANGED << state, regV, wgV, env, mainV, idxDisp, stopping, pcSig, watchV,
                    taskPc, clientV, cntV, passV, statusRecv, obsV, curDirect, recvState >>

\* c.SetState(Stopping) inside the first if
HandleSetStopping ==
    /\ Alive
    /\ pcDisp = "h_setStopping"
    /\ SetState(Stopping)
    /\ pcDisp' = "h_isStopping"
    /\ UNCHANGED << regV, wgV, env, mainV, idxDisp, stopping, pcSig, watchV, taskPc,
                    clientV, cntV, passV, statusRecv, obsV, msgH >>

\* faulty variant of HandleIsStopping: the second if also accepts Stopped
HandleIsStoppingOrStopped ==
    /\ Alive
    /\ pcDisp = "h_isStopping"
    /\ pcDisp' = IF IsStopping \/ IsStopped THEN "stop_lock" ELSE "recv"
    /\ curDirect' = ((IsStopping \/ IsStopped) /\ curDirect)
    /\ sawRunning' = ((IsStopping \/ IsStopped) /\ sawRunning)
    /\ recvState' = IF IsStopping \/ IsStopped THEN recvState ELSE NoOne
    /\ UNCHANGED << state, regV, wgV, env, mainV, idxDisp, stopping, pcSig, watchV,
                    taskPc, clientV, cntV, passV, statusRecv, obsV >>

\* if c.IsStopping() { ... } else return to the receive
HandleIsStopping ==
    /\ Alive
    /\ pcDisp = "h_isStopping"
    /\ pcDisp' = IF IsStopping THEN "stop_lock" ELSE "recv"
    /\ curDirect' = (IsStopping /\ curDirect)
    /\ sawRunning' = (IsStopping /\ sawRunning)
    /\ recvState' = IF IsStopping THEN recvState ELSE NoOne
    /\ UNCHANGED << state, regV, wgV, env, mainV, idxDisp, stopping, pcSig, watchV,
                    taskPc, clientV, cntV, passV, statusRecv, obsV >>

\* Services.stop: q.mu.Lock()
ServicesStopLock ==
    /\ Alive
    /\ pcDisp = "stop_lock"
    /\ mu = NoOne
    /\ mu' = "disp"
    /\ idxDisp' = 1
    /\ pcDisp' = "stop_iter"
    /\ stopPasses' = stopPasses + 1
    /\ passLog' = << >>
    /\ UNCHANGED << state, services, wgV, env, mainV, stopping, pcSig, watchV, taskPc,
                    clientV, cntV, statusRecv, obsV, msgH >>

\* faulty variant of ServicesStopIter: the pass walks the registry in reverse order
ServicesStopIterReversed ==
    /\ Alive
    /\ pcDisp = "stop_iter"
    /\ idxDisp <= Len(services)
    /\ stopCount' = [stopCount EXCEPT ![services[Len(services) + 1 - idxDisp]] = @ + 1]
    /\ passLog' = Append(passLog, services[Len(services) + 1 - idxDisp])
    /\ idxDisp' = idxDisp + 1
    /\ UNCHANGED << state, regV, wgV, env, mainV, pcDisp, stopping, pcSig, watchV,
                    taskPc, clientV, startCount, statusCount, stopPasses, statusRecv, obsV, msgH >>

\* Services.stop: one iteration of the range loop calls one s.Stop(ctx)
ServicesStopIter ==
    /\ Alive
    /\ pcDisp = "stop_iter"
    /\ idxDisp <= Len(services)
    /\ stopCount' = [stopCount EXCEPT ![services[idxDisp]] = @ + 1]
    /\ passLog' = Append(passLog, services[idxDisp])
    /\ idxDisp' = idxDisp + 1
    /\ UNCHANGED << state, regV, wgV, env, mainV, pcDisp, stopping, pcSig, watchV,
                    taskPc, clientV, startCount, statusCount, stopPasses, statusRecv, obsV, msgH >>

\* Services.stop: return len(q.services) and the deferred q.mu.Unlock();
\* the caller computes stopping := 0 - c.services.stop()
ServicesStopReturn ==
    /\ Alive
    /\ pcDisp = "stop_iter"
    /\ idxDisp > Len(services)
    /\ stopping' = 0 - Len(services)
    /\ mu' = NoOne
    /\ idxDisp' = 0
    /\ pcDisp' = "h_wgAdd"
    /\ UNCHANGED << state, services, wgV, env, mainV, pcSig, watchV, taskPc,
                    clientV, cntV, passV, statusRecv, obsV, msgH >>

\* c.wg.Add(stopping)
HandleWgAdd ==
    /\ Alive
    /\ pcDisp = "h_wgAdd"
    /\ WgAdd(stopping)
    /\ pcDisp' = IF wg + stopping < 0 THEN pcDisp ELSE "h_setStopped"
    /\ UNCHANGED << state, regV, env, mainV, idxDisp, stopping, pcSig, watchV, taskPc, clientV,
                    cntV, passV, statusRecv, obsV, msgH >>

\* c.SetState(Stopped); log; back to the receive
HandleSetStopped ==
    /\ Alive
    /\ pcDisp = "h_setStopped"
    /\ SetState(Stopped)
    /\ pcDisp' = "recv"
    /\ stopping' = 0
    /\ stoppedAfter' = (stoppedAfter \/ cancelRunning)
    /\ curDirect' = FALSE
    /\ sawRunning' = FALSE
    /\ recvState' = NoOne
    /\ UNCHANGED << regV, wgV, env, mainV, idxDisp, pcSig, watchV, taskPc,
                    clientV, cntV, passV, statusRecv, regAtStart, cancelRunning >>

\* ---- Services.status ------------------------------------------------------------------
\* q.mu.Lock()
ServicesStatusLock ==
    /\ Alive
    /\ pcDisp = "status_lock"
    /\ mu = NoOne
    /\ mu' = "disp"
    /\ idxDisp' = 1
    /\ pcDisp' = "status_iter"
    /\ UNCHANGED << state, services, wgV, env, mainV, stopping, pcSig, watchV, taskPc,
                    clientV, cntV, passV, statusRecv, obsV, msgH >>

\* faulty variant of ServicesStatusIter: the loop leaves after the first Status()
ServicesStatusIterFirstOnly ==
    /\ Alive
    /\ pcDisp = "status_iter"
    /\ idxDisp <= Len(services)
    /\ statusCount' = [statusCount EXCEPT ![services[idxDisp]] = @ + 1]
    /\ idxDisp' = Len(services) + 1
    /\ UNCHANGED << state, regV, wgV, env, mainV, pcDisp, stopping, pcSig, watchV,
                    taskPc, clientV, startCount, stopCount, passV, statusRecv,
                    obsV, msgH >>

\* one iteration of the range loop calls one s.Status()
ServicesStatusIter ==
    /\ Alive
    /\ pcDisp = "status_iter"
    /\ idxDisp <= Len(services)
    /\ statusCount' = [statusCount EXCEPT ![services[idxDisp]] = @ + 1]
    /\ idxDisp' = idxDisp + 1
    /\ UNCHANGED << state, regV, wgV, env, mainV, pcDisp, stopping, pcSig, watchV,
                    taskPc, clientV, startCount, stopCount, passV, statusRecv,
                    obsV, msgH >>

\* faulty variant of ServicesStatusReturn: Services.status returns to the
\* receive without unlocking
ServicesStatusReturnLocked ==
    /\ Alive
    /\ pcDisp = "status_iter"
    /\ idxDisp > Len(services)
    /\ mu' = mu
    /\ idxDisp' = 0
    /\ pcDisp' = "recv"
    /\ UNCHANGED << state, services, wgV, env, mainV, stopping, pcSig, watchV,
                    taskPc, clientV, cntV, passV, statusRecv, obsV, msgH >>

\* the deferred q.mu.Unlock(); back to the receive
ServicesStatusReturn ==
    /\ Alive
    /\ pcDisp = "status_iter"
    /\ idxDisp > Len(services)
    /\ mu' = NoOne
    /\ idxDisp' = 0
    /\ pcDisp' = "recv"
    /\ UNCHANGED << state, services, wgV, env, mainV, stopping, pcSig, watchV,
                    taskPc, clientV, cntV, passV, statusRecv, obsV, msgH >>

\* ---- the external collaborator ------------------------------------------------------------
\* the collaborator calls c.Stop()
ClientCallStop ==
    /\ Alive
    /\ Started
    /\ pcClient = "idle"
    /\ opsLeft > 0
    /\ opsLeft' = opsLeft - 1
    /\ pcClient' = "stop_set"
    /\ clientLate' = StartReturned
    /\ UNCHANGED << state, regV, wgV, env, mainV, dispV, pcSig, watchV, taskPc,
                    clientMsg, cntV, passV, statusRecv, obsV, msgH >>

\* the collaborator inside Stop: SetState(Stopping)
ClientStopSet ==
    /\ Alive
    /\ pcClient = "stop_set"
    /\ StopSetState
    /\ pcClient' = "stop_send"
    /\ UNCHANGED << regV, wgV, env, mainV, dispV, pcSig, watchV, taskPc, clientMsg,
                    opsLeft, clientLate, cntV, passV, statusRecv, obsV, msgH >>

\* the collaborator continues after its Stop() call returned
ClientStopReturn ==
    /\ Alive
    /\ pcClient = "stop_ret"
    /\ pcClient' = "idle"
    /\ clientLate' = FALSE
    /\ UNCHANGED << state, regV, wgV, env, mainV, dispV, pcSig, watchV, taskPc,
                    clientMsg, opsLeft, cntV, passV, statusRecv,
                    obsV, msgH >>

\* the collaborator begins c.Messages() <- m
ClientSend(m) ==
    /\ Alive
    /\ Started
    /\ pcClient = "idle"
    /\ opsLeft > 0
    /\ opsLeft' = opsLeft - 1
    /\ pcClient' = "msg_send"
    /\ clientMsg' = m
    /\ UNCHANGED << state, regV, wgV, env, mainV, dispV, pcSig, watchV, taskPc,
                    clientLate, cntV, passV, statusRecv, obsV,
                    msgH >>

\* the collaborator begins c.Errors() <- err
ClientSendErr ==
    /\ Alive
    /\ Started
    /\ pcClient = "idle"
    /\ opsLeft > 0
    /\ opsLeft' = opsLeft - 1
    /\ pcClient' = "err_send"
    /\ UNCHANGED << state, regV, wgV, env, mainV, dispV, pcSig, watchV, taskPc,
                    clientMsg, clientLate, cntV, passV, statusRecv, obsV, msgH >>

\* the collaborator calls c.Register after Start was invoked:
\* Services.add takes the registry lock
ClientRegister ==
    /\ Alive
    /\ Started
    /\ pcClient = "idle"
    /\ opsLeft > 0
    /\ Len(services) < MaxServices
    /\ mu = NoOne
    /\ mu' = "client"
    /\ opsLeft' = opsLeft - 1
    /\ pcClient' = "reg_add"
    /\ UNCHANGED << state, services, wgV, env, mainV, dispV, pcSig, watchV, taskPc,
                    clientMsg, clientLate, cntV, passV, statusRecv, obsV, msgH >>

\* Services.add appends and its deferred q.mu.Unlock() runs
ClientRegisterAdd ==
    /\ Alive
    /\ pcClient = "reg_add"
    /\ add
    /\ mu' = NoOne
    /\ pcClient' = "idle"
    /\ UNCHANGED << state, wgV, env, mainV, dispV, pcSig, watchV, taskPc,
                    clientMsg, opsLeft, clientLate, cntV, passV, statusRecv, obsV,
                    msgH >>

\* ---- specification ---------------------------------------------------------------------------
Next ==
    \/ Register
    \/ StartSpawn
    \/ StartWgAdd
    \/ ServicesStartLock
    \/ ServicesStartLaunch
    \/ ServicesStartUnlock
    \/ ServicesStartWait
    \/ StartSetRunning
    \/ \E s \in SvcIds : TaskRun(s)
    \/ Wait
    \/ OsSignal
    \/ SigRecv
    \/ SigStopSet
    \/ CtxCancel
    \/ \E s \in SvcIds : WatchRecvErrTask(s)
    \/ WatchRecvErrClient
    \/ WatchLogErr
    \/ WatchCtxDone
    \/ WatchStopSet
    \/ RecvStopSig
    \/ RecvStopWatch
    \/ RecvStopClient
    \/ RecvStopDirect
    \/ RecvStatus
    \/ HandleIsRunning
    \/ HandleSetStopping
    \/ HandleIsStopping
    \/ ServicesStopLock
    \/ ServicesStopIter
    \/ ServicesStopReturn
    \/ HandleWgAdd
    \/ HandleSetStopped
    \/ ServicesStatusLock
    \/ ServicesStatusIter
    \/ ServicesStatusReturn
    \/ ClientCallStop
    \/ ClientStopSet
    \/ ClientStopReturn
    \/ \E m \in {MsgStop, MsgStatus} : ClientSend(m)
    \/ ClientSendErr
    \/ ClientRegister
    \/ ClientRegisterAdd

Spec == Init /\ [][Next]_vars

\* ---- claims ------------------------------------------------------------------------------------
\* services registered at the moment (the registry's contents as ids)
Registered == {services[i] : i \in 1..Len(services)}

\* the dispatch loop is inside Services.status
InStatusPass == pcDisp \in {"status_lock", "status_iter"}

\* C1: whatever stop triggers occur after Start, Services.stop runs at most once.
C1_StopRunsAtMostOnce == stopPasses <= 1

\* C2 (as claimed): when handleStopMessage is about to set Stopped, every service
\* registered at that moment has been stopped exactly once by this pass, in
\* registration order.
C2_AllRegisteredStopped == pcDisp = "h_setStopped" => passLog = services

\* C2 (amended): when handleStopMessage is about to set Stopped, the services that
\* were registered when Services.stop held the registry lock (the first
\* -stopping entries of the registry) have each been stopped exactly once by
\* this pass, in registration order, and nothing else has.
C2_PassStoppedSnapshot ==
    pcDisp = "h_setStopped" =>
        /\ 0 - stopping <= Len(services)
        /\ passLog = SubSeq(services, 1, 0 - stopping)

\* C2 witness: a pass over two services has finished and Stopped is about to be set.
C2_Witness == pcDisp = "h_setStopped" /\ passLog = << 1, 2 >> /\ ~panicked

\* C3: cancelling the context while Running (Start returned) eventually yields
\* Stopped.  Finite-run form: a process that has died of a panic takes no
\* further step, so if it dies after such a cancellation it must already have
\* set Stopped since the cancellation.
C3_CancelReachesStopped == (cancelRunning /\ panicked) => stoppedAfter

\* C4: with at least one service registered, Wait() returns only when the state
\* is Stopped.
C4_WaitGate ==
    [][(pcMain = "returned" /\ pcMain' = "waitReturned" /\ regAtStart >= 1)
          => state' = Stopped]_vars

\* C5: when a Stop() call made after Start returned itself returns, the state
\* is Stopped and every registered stop operation has been invoked once.
C5_StopSynchronous ==
    (pcClient = "stop_ret" /\ clientLate) =>
        /\ state = Stopped
        /\ \A s \in Registered : stopCount[s] = 1

\* a step of the dispatch loop that receives or processes a Status message
StatusStep ==
    \/ pcDisp = "recv" /\ pcDisp' = "status_lock"
    \/ InStatusPass /\ << pcDisp, idxDisp >>' # << pcDisp, idxDisp >>

\* processing a Status message changes neither the state nor the join counter
StatusFrame == [][StatusStep => (state' = state /\ wg' = wg)]_vars

\* C6 (as claimed): once the N Status messages received so far are processed,
\* every registered status operation has been invoked exactly N times; and
\* processing a Status message changes neither the state nor the join counter.
C6_StatusCountsAll ==
    /\ [](~InStatusPass => \A s \in Registered : statusCount[s] = statusRecv)
    /\ StatusFrame

\* C6 (amended): once the N Status messages received so far are processed, the
\* status operation of every service registered before Start was called has
\* been invoked exactly N times (a service registered later has been invoked
\* at most N times); and processing a Status message changes neither the state
\* nor the join counter.
C6_StatusCountsRegisteredBeforeStart ==
    /\ [](~InStatusPass =>
            /\ \A s \in 1..regAtStart : statusCount[s] = statusRecv
            /\ \A s \in Registered : statusCount[s] <= statusRecv)
    /\ StatusFrame

\* C6 witness: two Status messages have been processed for two services.
C6_Witness ==
    /\ ~InStatusPass
    /\ statusRecv = 2
    /\ regAtStart = 2
    /\ statusCount[1] = 2 /\ statusCount[2] = 2

\* C7: when Start returns, the start operation of every service registered
\* before Start was called has been invoked exactly once and has returned, and
\* the step by which Start returns is its SetState(Running).
C7_StartStartsAll ==
    /\ [](StartReturned =>
            \A s \in 1..regAtStart : startCount[s] = 1 /\ taskPc[s] = "done")
    /\ [][(pcMain = "S_setRunning" /\ pcMain' # pcMain)
            => (pcMain' = "returned" /\ state' = Running)]_vars

\* C7 witness: Start has returned with two services registered before it.
C7_Witness == pcMain = "returned" /\ regAtStart = 2 /\ startCount[2] = 1

\* C8: once the state is Stopped it never holds another value.
C8_StoppedTerminal == [][state = Stopped => state' = Stopped]_vars

\* C9: the handling of one Stop message sent directly on the channel and found
\* Running carries through to SetState(Stopped).  Finite-run form: the process
\* does not die inside that handling (the handling ends by setting Stopped).
C9_SingleStopCompletes == (curDirect /\ sawRunning) => ~panicked

\* a step in which the watcher receives an error from a start task or from the
\* collaborator
ErrRecvStep ==
    \/ \E s \in SvcIds : taskPc[s] = "sendErr" /\ taskPc'[s] = "done"
    \/ pcClient = "err_send" /\ pcClient' = "idle"

\* the step in which the watcher logs the error it received
ErrLogStep == pcWatch = "log_err" /\ pcWatch' # "log_err"

\* what no error may touch: the state, the stop operations, the join counter,
\* and every thread that could send a Stop message
ErrFrame ==
    /\ state' = state
    /\ stopCount' = stopCount
    /\ stopPasses' = stopPasses
    /\ wg' = wg
    /\ pcDisp' = pcDisp
    /\ pcSig' = pcSig
    /\ pcClient' = pcClient \/ (pcClient = "err_send" /\ pcClient' = "idle")

\* C10: an error received on the errors channel is logged, and receiving and
\* logging it changes no state, invokes no stop operation and sends no Stop.
C10_ErrorsNonFatal ==
    /\ [][ErrRecvStep => (pcWatch' = "log_err" /\ ErrFrame)]_vars
    /\ [][ErrLogStep => (pcWatch' = "select" /\ ErrFrame)]_vars

\* C10 witness: the watcher has just received an error while the state is
\* Running and is about to log it.
C10_Witness == pcWatch = "log_err" /\ state = Running /\ stopPasses = 0

\* a thread is inside a range loop over the registry
InIteration == pcMain = "S_launch" \/ pcDisp \in {"stop_iter", "status_iter"}

\* C11: a registration made after Start was invoked never overlaps a registry
\* iteration; no read of the registry runs unlocked while a registration is
\* inside its critical section (Start's len(c.services.services) is the one
\* read made without the lock); and the start operation of a service
\* registered after Start was invoked is never invoked.
C11_LateRegisterSafe ==
    /\ [][(services' # services) => ~InIteration]_vars
    /\ [](pcMain = "S_add" => pcClient # "reg_add")
    /\ [](\A s \in SvcIds : (Started /\ s > regAtStart) => startCount[s] = 0)

\* the transitions of the signal watcher: start, receive, Stop(), terminate
SigChain ==
    { << "off", "recv" >>, << "recv", "stop_set" >>,
      << "stop_set", "stop_send" >>, << "stop_send", "done" >> }

\* C12: the signal watcher moves only along receive, Stop(), terminate (so it
\* receives once and calls Stop() at most once); its Stop message is the one
\* the dispatch loop receives as the watcher terminates; and a signal
\* delivered while the watcher is in Stop() or has terminated changes nothing
\* but the channel's buffer.
C12_FirstSignalOnly ==
    /\ [][pcSig' # pcSig => << pcSig, pcSig' >> \in SigChain]_vars
    /\ [][(pcSig = "recv" /\ pcSig' # pcSig) => (sigBuf > 0 /\ sigBuf' = sigBuf - 1)]_vars
    /\ [][(pcSig = "stop_send" /\ pcSig' # pcSig)
            => (pcDisp = "recv" /\ pcDisp' = "h_isRunning")]_vars
    /\ [][(sigBuf' > sigBuf /\ pcSig \in {"stop_set", "stop_send", "done"})
            => (pcSig' = pcSig /\ state' = state /\ pcDisp' = pcDisp)]_vars

\* C12 witness: the watcher has terminated after its one Stop() and a later
\* signal sits in the channel's buffer.
C12_Witness == pcSig = "done" /\ sigBuf = SigCap /\ stopPasses >= 1

\* C13: the watcher enters Stop() only on a cancelled context whose flag is
\* still unset, and sets the flag as it does; the flag is never cleared (so
\* Stop() is called at most once); when that call returns the watcher is back
\* at its select, and from then on every step it takes from the select is the
\* receipt of an error.
C13_CancelOneStop ==
    /\ [][(pcWatch # "stop_set" /\ pcWatch' = "stop_set")
            => (ctxDone /\ ~ctxCancelled /\ ctxCancelled')]_vars
    /\ [][ctxCancelled => (ctxCancelled')]_vars
    /\ [][(pcWatch = "stop_send" /\ pcWatch' # pcWatch)
            => (pcWatch' = "select" /\ pcDisp = "recv" /\ pcDisp' = "h_isRunning")]_vars
    /\ [][(pcWatch = "select" /\ ctxCancelled /\ pcWatch' # pcWatch)
            => (pcWatch' = "log_err" /\ ErrRecvStep)]_vars

\* C13 witness: after its Stop() call returned, the watcher has received an
\* error while the context's done channel stays readable.
C13_Witness == pcWatch = "log_err" /\ ctxCancelled /\ ctxDone

\* a send on the control channel completes
SendCompletes ==
    \/ pcSig = "stop_send" /\ pcSig' # pcSig
    \/ pcWatch = "stop_send" /\ pcWatch' # pcWatch
    \/ pcClient \in {"stop_send", "msg_send"} /\ pcClient' # pcClient

\* exactly one stop or status operation is invoked by the step
OneServiceOp ==
    \E s \in SvcIds :
        \/ stopCount' = [stopCount EXCEPT ![s] = @ + 1] /\ statusCount' = statusCount
        \/ statusCount' = [statusCount EXCEPT ![s] = @ + 1] /\ stopCount' = stopCount

\* C14: a send on the control channel completes only while the dispatch loop
\* is at its receive, and takes the loop into the handling of that message;
\* the loop leaves its receive only by such a send; every stop or status
\* operation is invoked by the dispatch loop inside Services.stop or
\* Services.status under the registry lock, one at a time; and at its receive
\* the loop has finished the previous handling.
C14_Serialized ==
    /\ [][SendCompletes =>
            (pcDisp = "recv" /\ pcDisp' \in {"h_isRunning", "status_lock"})]_vars
    /\ [][(pcDisp = "recv" /\ pcDisp' # pcDisp) => SendCompletes]_vars
    /\ [][(stopCount' # stopCount \/ statusCount' # statusCount) =>
            /\ mu = "disp"
            /\ pcDisp \in {"stop_iter", "status_iter"}
            /\ pcDisp' = pcDisp
            /\ OneServiceOp]_vars
    /\ [](pcDisp = "recv" => (idxDisp = 0 /\ stopping = 0 /\ mu # "disp"))

\* C14 witness: a Stop() call is blocked in its send while the dispatch loop
\* is in the middle of a stop pass.
C14_Witness == pcDisp = "stop_iter" /\ idxDisp = 2 /\ pcWatch = "stop_send"

\* the registry lock is held only by a thread inside a critical section of
\* Services, and no position inside such a section is a channel operation
\* (the state mutex is taken and released inside SetState/GetState, which
\* are single steps without channel operations)
LocksOffChannels ==
    /\ mu \in {NoOne, "main", "disp", "client"}
    /\ mu = "main" => pcMain = "S_launch"
    /\ mu = "disp" => pcDisp \in {"stop_iter", "status_iter"}
    /\ mu = "client" => pcClient = "reg_add"

\* C15 (as claimed): no thread on a channel operation holds a lock, and a
\* start task is at its error send only after Services.start has left its
\* critical section.
C15_NoLockAcrossChannelOp ==
    /\ LocksOffChannels
    /\ \A s \in SvcIds : taskPc[s] = "sendErr" => pcMain # "S_launch"

\* C15 (amended): no thread on a channel operation holds a lock, and a start
\* task is at its error send only while Services.start is still executing:
\* inside its critical section launching the remaining tasks, or in wg.Wait().
C15_NoLockHeldBySender ==
    /\ LocksOffChannels
    /\ \A s \in SvcIds : taskPc[s] = "sendErr" => pcMain \in {"S_launch", "S_wait"}

\* C15 witness: a start task is blocked in its error send while Services.start
\* holds the registry lock.
C15_Witness == taskPc[1] = "sendErr" /\ pcMain = "S_launch" /\ mu = "main"

\* C16: the join counter is never negative.
C16_WgNonNegative == wg >= 0

\* no thread is inside Stop() or a send on the control channel, and the
\* dispatch loop is at its receive
NoStopPending ==
    /\ pcSig \notin {"stop_set", "stop_send"}
    /\ pcWatch \notin {"stop_set", "stop_send"}
    /\ pcClient \notin {"stop_set", "stop_send", "msg_send"}
    /\ pcDisp = "recv"

\* C17, the part that needs no fairness: once a stop operation has been
\* invoked, Start has returned and no stop request is pending, the state is
\* not Running.
C17_StopNotLost ==
    ((\E s \in SvcIds : stopCount[s] >= 1) /\ StartReturned /\ NoStopPending)
        => state # Running

\* C18 (as claimed): the handling of a Stop message that was received while
\* the state was Unknown or Stopped invokes no Services.stop.
C18_DroppedWhenReceivedIdle ==
    [][(recvState \in {Unknown, Stopped}) => (stopPasses' = stopPasses)]_vars

\* what a dropped Stop message leaves alone
StopFrame ==
    /\ state' = state
    /\ wg' = wg
    /\ stopCount' = stopCount
    /\ stopPasses' = stopPasses

\* C18 (amended): a Stop message is consumed at the receive, and when the
\* handler finds the state Unknown or Stopped at its IsRunning() check and at
\* its IsStopping() check it returns to the receive, and those checks invoke
\* no stop operation and change neither the state nor the join counter.
C18_NoOpWhenCheckedIdle ==
    /\ [][(pcDisp = "h_isRunning" /\ pcDisp' # pcDisp /\ state \in {Unknown, Stopped})
            => (pcDisp' = "h_isStopping" /\ StopFrame)]_vars
    /\ [][(pcDisp = "h_isStopping" /\ pcDisp' # pcDisp /\ state \in {Unknown, Stopped})
            => (pcDisp' = "recv" /\ StopFrame)]_vars
    /\ [][(pcClient = "msg_send" /\ clientMsg = MsgStop /\ pcClient' # pcClient)
            => (pcClient' = "idle" /\ pcDisp = "recv" /\ pcDisp' = "h_isRunning")]_vars

\* C18 witness: a Stop message sent directly on the channel was received with
\* the state Unknown, and the handler's second check still finds Unknown.
C18_Witness ==
    /\ pcDisp = "h_isStopping"
    /\ curDirect
    /\ recvState = Unknown
    /\ state = Unknown
    /\ stopPasses = 0

\* C19: the dispatch loop always returns to its receive.  Finite-run form: a
\* process that has died of a panic takes no further step, so the loop must
\* be at its receive if the process has died.
C19_LoopReturns == panicked => pcDisp = "recv"

====
